---- MODULE Spec2Model ----
(***************************************************************************)
(* A model of the authentication service: the User table, the password     *)
(* hasher, the JWT token service and the four /auth handlers.              *)
(*                                                                         *)
(* Time is counted in ticks, TicksPerSec to the second, so that the        *)
(* truncation of a token's expiry to whole seconds is visible.             *)
(* register_user is two steps (its SELECT, then its INSERT/COMMIT), so     *)
(* that requests interleave; the other handlers make one store access and  *)
(* are one step each.                                                      *)
(*                                                                         *)
(* Spec runs all four handlers and the clock with one register request in  *)
(* flight; SpecRace interleaves NReqs register requests and logins.        *)
(* The variable last holds the last response sent, with the request it     *)
(* answers; registered records the credentials and identifier of every     *)
(* register request that was answered with a token.                        *)
(***************************************************************************)
EXTENDS Integers, FiniteSets, TLC

\* ---------------------------------------------------------------- bounds
NReqs == 2          \* register requests that can be in flight together
NIds == 2           \* size of the identifier space uuid4 draws from
TicksPerSec == 2    \* clock resolution
ExpireSecs == 1     \* settings.jwt_expiration_minutes, scaled down to seconds
MaxNow == 2         \* the clock stops here

Reqs == 1..NReqs
Ids == 1..NIds
Emails == {"a@x", "b@x"}
Passwords == {"pw1", "pw2"}
Times == 0..MaxNow
MaxExp == (MaxNow \div TicksPerSec) + ExpireSecs

\* ------------------------------------------------------------ configuration
jwt_secret_key == "CHANGE_THIS_TO_SOMETHING_SECURE"
OtherKey == "another secret"

VARIABLES users, now, reqs, last, registered

vars == <<users, now, reqs, last, registered>>

\* ---------------------------------------------------------- password hasher
\* bcrypt: the hash string embeds the scheme and the salt drawn for the call;
\* the digest is a function of the password and the salt.
hash_password(password, salt) ==
    [scheme |-> "bcrypt", salt |-> salt, digest |-> <<password, salt>>]

verify_password_unsalted(plain_password, hashed_password) ==
    hashed_password.digest = <<plain_password, "">>

\* verify recomputes the digest with the salt embedded in the hash.
verify_password(plain_password, hashed_password) ==
    hashed_password.digest = <<plain_password, hashed_password.salt>>

\* ------------------------------------------------------------ token service
NoSub == "none"
Subjects == {ToString(i) : i \in Ids}

\* HMAC over the payload: only the key and the payload signed determine it.
Sign(key, sub, exp) == [key |-> key, sub |-> sub, exp |-> exp, flip |-> FALSE]

\* One character of the signature segment changed.
Tamper(sig) == [sig EXCEPT !.flip = TRUE]

Jwt(sub, exp, sig) == [fmt |-> "jwt", sub |-> sub, exp |-> exp, sig |-> sig]

\* exp is a set: empty when the claim is absent, else the expiry in seconds.
create_access_token(subject, t) ==
    LET expire == (t \div TicksPerSec) + ExpireSecs
    IN Jwt(subject, {expire}, Sign(jwt_secret_key, subject, {expire}))

\* jwt.decode checks the format, the signature under the configured key and,
\* when the payload has an exp claim, that exp is after the current time;
\* no claim is required. The result is payload.get("sub"): NoSub when absent.
decode_access_token(token, t) ==
    IF token.fmt # "jwt" THEN [exc |-> "DecodeError", sub |-> NoSub]
    ELSE IF token.sig # Sign(jwt_secret_key, token.sub, token.exp)
    THEN [exc |-> "InvalidSignatureError", sub |-> NoSub]
    ELSE IF \E x \in token.exp : x * TicksPerSec <= t
    THEN [exc |-> "ExpiredSignatureError", sub |-> NoSub]
    ELSE [exc |-> "none", sub |-> token.sub]

\* ------------------------------------------------------------- request inputs
NoAuth == [fmt |-> "absent", sub |-> NoSub, exp |-> {}, sig |-> Sign(OtherKey, NoSub, {})]
Garbage == [fmt |-> "garbage", sub |-> NoSub, exp |-> {}, sig |-> Sign(OtherKey, NoSub, {})]

Payloads == [sub : Subjects \cup {NoSub}, exp : {{}} \cup {{x} : x \in 0..MaxExp}]

\* Tokens signed with the configured key, with every payload; and, for the
\* payloads with the latest expiry, tokens signed with another key and tokens
\* whose signature was altered.
WellFormed ==
    {Jwt(p.sub, p.exp, Sign(jwt_secret_key, p.sub, p.exp)) : p \in Payloads}
    \cup {Jwt(p.sub, p.exp, Sign(OtherKey, p.sub, p.exp)) :
              p \in {q \in Payloads : q.exp = {MaxExp}}}
    \cup {Jwt(p.sub, p.exp, Tamper(Sign(jwt_secret_key, p.sub, p.exp))) :
              p \in {q \in Payloads : q.exp = {MaxExp}}}

Tokens == WellFormed \cup {Garbage}
Auths == Tokens \cup {NoAuth}

\* ------------------------------------------------------------------- store
User(id, email, hashed_password, created_at) ==
    [id |-> id, email |-> email, hashed_password |-> hashed_password,
     created_at |-> created_at, is_active |-> TRUE, is_superuser |-> FALSE]

ByEmail(rows, email) == {u \in rows : u.email = email}
ById(rows, sub) == {u \in rows : ToString(u.id) = sub}

IntegrityErrorNoUnique(rows, new_user) ==
    \E u \in rows : u.id = new_user.id

\* The table's constraints: id is the primary key, email is unique.
IntegrityError(rows, new_user) ==
    \E u \in rows : u.id = new_user.id \/ u.email = new_user.email

\* ---------------------------------------------------------------- responses
NoEmail == "-"
NoPassword == "-"

Response(op, email, password, auth, status, detail, token, profile) ==
    [op |-> op, email |-> email, password |-> password, auth |-> auth,
     status |-> status, detail |-> detail, token |-> token, profile |-> profile]

\* ---------------------------------------------------------------- handlers
\* What the dependency hands to the route: a user, or the HTTPException raised.
Denied(status, detail) == [status |-> status, detail |-> detail, user |-> {}]

get_current_user_404(auth, rows, t) ==
    IF auth.fmt = "absent" THEN Denied(401, "Not authenticated")
    ELSE LET d == decode_access_token(auth, t) IN
         IF d.exc # "none" \/ d.sub = NoSub THEN Denied(401, "Invalid token.")
         ELSE IF ById(rows, d.sub) = {} THEN Denied(404, "User not found.")
         ELSE LET user == CHOOSE u \in ById(rows, d.sub) : TRUE IN
              IF ~user.is_active THEN Denied(400, "User is inactive.")
              ELSE [status |-> 200, detail |-> "", user |-> {user}]

get_current_user_any_user(auth, rows, t) ==
    IF auth.fmt = "absent" THEN Denied(401, "Not authenticated")
    ELSE LET d == decode_access_token(auth, t) IN
         IF d.exc # "none" \/ d.sub = NoSub THEN Denied(401, "Invalid token.")
         ELSE IF ById(rows, d.sub) = {} THEN Denied(401, "User not found.")
         ELSE LET user == CHOOSE u \in ById(rows, d.sub) : TRUE IN
              [status |-> 200, detail |-> "", user |-> {user}]

\* oauth2_scheme answers 401 when the request carries no bearer token. The
\* HTTPException raised for a missing subject is raised inside the try block
\* and is replaced by the handler's own 401.
get_current_user(auth, rows, t) ==
    IF auth.fmt = "absent" THEN Denied(401, "Not authenticated")
    ELSE LET d == decode_access_token(auth, t) IN
         IF d.exc # "none" \/ d.sub = NoSub THEN Denied(401, "Invalid token.")
         ELSE IF ById(rows, d.sub) = {} THEN Denied(401, "User not found.")
         ELSE LET user == CHOOSE u \in ById(rows, d.sub) : TRUE IN
              IF ~user.is_active THEN Denied(400, "User is inactive.")
              ELSE [status |-> 200, detail |-> "", user |-> {user}]

read_current_user(current_user) ==
    [id |-> ToString(current_user.id), email |-> current_user.email,
     created_at |-> current_user.created_at, is_active |-> current_user.is_active,
     is_superuser |-> current_user.is_superuser]

\* GET /auth/me
MeResponse(auth, rows, t) ==
    LET g == get_current_user(auth, rows, t) IN
    IF g.user = {} THEN Response("me", NoEmail, NoPassword, auth, g.status, g.detail, {}, {})
    ELSE Response("me", NoEmail, NoPassword, auth, 200, "", {},
                  {read_current_user(CHOOSE u \in g.user : TRUE)})

login_user_split_errors(email, password, rows, t) ==
    IF ByEmail(rows, email) = {}
    THEN Response("login", email, password, NoAuth, 401, "Unknown email.", {}, {})
    ELSE LET user == CHOOSE u \in ByEmail(rows, email) : TRUE IN
         IF ~verify_password(password, user.hashed_password)
         THEN Response("login", email, password, NoAuth, 401, "Incorrect password.", {}, {})
         ELSE Response("login", email, password, NoAuth, 200, "",
                       {create_access_token(ToString(user.id), t)}, {})

login_user_active_only(email, password, rows, t) ==
    IF \/ ByEmail(rows, email) = {}
       \/ ~verify_password(password, (CHOOSE u \in ByEmail(rows, email) : TRUE).hashed_password)
       \/ ~(CHOOSE u \in ByEmail(rows, email) : TRUE).is_active
    THEN Response("login", email, password, NoAuth, 401, "Incorrect email or password.", {}, {})
    ELSE Response("login", email, password, NoAuth, 200, "",
                  {create_access_token(ToString((CHOOSE u \in ByEmail(rows, email) : TRUE).id), t)}, {})

\* POST /auth/login
login_user(email, password, rows, t) ==
    IF \/ ByEmail(rows, email) = {}
       \/ ~verify_password(password, (CHOOSE u \in ByEmail(rows, email) : TRUE).hashed_password)
    THEN Response("login", email, password, NoAuth, 401, "Incorrect email or password.", {}, {})
    ELSE Response("login", email, password, NoAuth, 200, "",
                  {create_access_token(ToString((CHOOSE u \in ByEmail(rows, email) : TRUE).id), t)}, {})

TypeOK ==
    /\ now \in Times
    /\ \A u \in users : u.id \in Ids /\ u.email \in Emails
    /\ \A r \in Reqs : reqs[r].pc \in {"idle", "commit"}

Init ==
    /\ users = {}
    /\ now = 0
    /\ reqs = [r \in Reqs |-> [pc |-> "idle", password |-> {}, new_user |-> {}]]
    /\ last = Response("start", NoEmail, NoPassword, NoAuth, 0, "", {}, {})
    /\ registered = {}

\* POST /auth/register, up to session.add: the SELECT by email, the 400 when a
\* row is found, else the new row (its id, hash and creation time are set
\* when the User object is built).
register_user_lookup(r, email, password, id, salt) ==
    /\ reqs[r].pc = "idle"
    /\ IF ByEmail(users, email) # {}
       THEN /\ last' = Response("register", email, password, NoAuth, 400,
                                "Email is already registered.", {}, {})
            /\ UNCHANGED reqs
       ELSE /\ reqs' = [reqs EXCEPT ![r] =
                   [pc |-> "commit", password |-> {password},
                    new_user |-> {User(id, email, hash_password(password, salt), now)}]]
            /\ UNCHANGED last
    /\ UNCHANGED <<users, now, registered>>

\* POST /auth/register, from session.commit: the INSERT, which the table's
\* constraints may refuse (the IntegrityError is not caught: a 500), then the
\* token for the new row's id.
register_user_commit(r) ==
    /\ reqs[r].pc = "commit"
    /\ LET new_user == CHOOSE u \in reqs[r].new_user : TRUE
           password == CHOOSE p \in reqs[r].password : TRUE
       IN IF IntegrityError(users, new_user)
          THEN /\ last' = Response("register", new_user.email, password, NoAuth, 500,
                                   "Internal Server Error", {}, {})
               /\ UNCHANGED <<users, registered>>
          ELSE /\ users' = users \cup {new_user}
               /\ last' = Response("register", new_user.email, password, NoAuth, 200, "",
                                   {create_access_token(ToString(new_user.id), now)}, {})
               /\ registered' = registered \cup
                      {[email |-> new_user.email, password |-> password, id |-> new_user.id]}
    /\ reqs' = [reqs EXCEPT ![r] = [pc |-> "idle", password |-> {}, new_user |-> {}]]
    /\ UNCHANGED now

Login(email, password) ==
    /\ last' = login_user(email, password, users, now)
    /\ UNCHANGED <<users, now, reqs, registered>>

Me(auth) ==
    /\ last' = MeResponse(auth, users, now)
    /\ UNCHANGED <<users, now, reqs, registered>>

logout_user_requires_user(auth) ==
    /\ last' = IF get_current_user(auth, users, now).user = {}
               THEN Response("logout", NoEmail, NoPassword, NoAuth, 401, "Invalid token.", {}, {})
               ELSE Response("logout", NoEmail, NoPassword, NoAuth, 200, "Logout successful.", {}, {})
    /\ UNCHANGED <<users, now, reqs, registered>>

\* POST /auth/logout: the route has no dependency, so the request's
\* Authorization header is not read.
logout_user(auth) ==
    /\ last' = Response("logout", NoEmail, NoPassword, NoAuth, 200, "Logout successful.", {}, {})
    /\ UNCHANGED <<users, now, reqs, registered>>

\* The environment: is_active is a mutable column that no handler writes; an
\* administrator changes it in the table.
SetActive(id, active) ==
    /\ \E u \in users : u.id = id /\ u.is_active # active
    /\ users' = {IF u.id = id THEN [u EXCEPT !.is_active = active] ELSE u : u \in users}
    /\ UNCHANGED <<now, reqs, last, registered>>

Tick ==
    /\ now < MaxNow
    /\ now' = now + 1
    /\ UNCHANGED <<users, reqs, last, registered>>

\* A logout request carries no token, or a token the service issues.
LogoutAuths == {NoAuth} \cup {create_access_token(sub, now) : sub \in Subjects}

\* All four handlers, one register request in flight at a time, the clock running.
Next ==
    \/ \E email \in Emails, id \in Ids :
          register_user_lookup(1, email, "pw1", id, "s1")
    \/ register_user_commit(1)
    \/ \E email \in Emails, password \in Passwords : Login(email, password)
    \/ \E auth \in Auths : Me(auth)
    \/ \E auth \in LogoutAuths : logout_user(auth)
    \/ \E id \in Ids, active \in BOOLEAN : SetActive(id, active)
    \/ Tick

Spec == Init /\ [][Next]_vars

\* Register requests interleaving with each other and with logins; the clock
\* stopped.
NextRace ==
    \/ \E r \in Reqs, email \in Emails, password \in Passwords, id \in Ids :
          register_user_lookup(r, email, password, id, "s1")
    \/ \E r \in Reqs : register_user_commit(r)
    \/ \E email \in Emails, password \in Passwords : Login(email, password)

SpecRace == Init /\ [][NextRace]_vars

\* ------------------------------------------------------------------- claims
\* What a client sees of a response.
Visible(resp) ==
    [status |-> resp.status, detail |-> resp.detail, token |-> resp.token,
     profile |-> resp.profile]

\* The cases of a token, stated from the token's parts and the clock.
SignedByCurrentSecret(tok) ==
    tok.fmt = "jwt" /\ tok.sig = Sign(jwt_secret_key, tok.sub, tok.exp)
Expired(tok, t) == \E x \in tok.exp : x * TicksPerSec <= t
ValidToken(tok, t) ==
    SignedByCurrentSecret(tok) /\ ~Expired(tok, t) /\ tok.sub # NoSub
Accepted(tok, t) ==
    LET d == decode_access_token(tok, t) IN d.exc = "none" /\ d.sub # NoSub
Lifetime == ExpireSecs * TicksPerSec
IssuedBy(t) == {create_access_token(sub, t0) : sub \in Subjects, t0 \in 0..t}

\* C1: no two persisted users share an email, and no two share an identifier,
\* whatever the interleaving of the register requests' lookups and commits.
C1_EmailAndIdUnique ==
    \A u, v \in users : (u.email = v.email \/ u.id = v.id) => u = v

\* C1 witness: both emails are persisted and a commit has been refused by the
\* table's constraints.
C1_Witness ==
    /\ Cardinality(users) = 2
    /\ last.op = "register" /\ last.status = 500

\* C2 (as claimed): a register request that is refused while its email belongs
\* to a persisted user is refused with the 400 "Email is already registered."
\* and with no other error.
C2_DuplicateEmailIs400 ==
    (/\ last.op = "register"
     /\ last.status # 200
     /\ ByEmail(users, last.email) # {})
    => (last.status = 400 /\ last.detail = "Email is already registered.")

\* C2, the part the code keeps: a refused register request adds and changes
\* no row and carries no token.
C2_RefusedRegisterHasNoEffect ==
    [][(last'.op = "register" /\ last' # last /\ last'.status # 200)
        => (users' = users /\ last'.token = {})]_vars

\* C3: once register(e, p) has returned a token, login(e, p) succeeds in every
\* later state and its token's subject is the identifier of the user that
\* register created.
C3_RegisteredCanLogin ==
    /\ \A g \in registered :
          LET r == login_user(g.email, g.password, users, now) IN
          /\ r.status = 200
          /\ r.token # {}
          /\ \A tok \in r.token : tok.sub = ToString(g.id) /\ Accepted(tok, now)
    /\ (last.op = "login"
        /\ \E g \in registered : g.email = last.email /\ g.password = last.password)
       => /\ last.status = 200
          /\ \E tok \in last.token : \E g \in registered :
                g.email = last.email /\ tok.sub = ToString(g.id)

\* C3 witness: a login with registered credentials has succeeded after the
\* clock moved past the user's creation, with both emails registered.
C3_Witness ==
    /\ last.op = "login" /\ last.status = 200
    /\ \E g \in registered : g.email = last.email /\ g.password = last.password
    /\ Cardinality(users) = 2
    /\ \E u \in ByEmail(users, last.email) : u.created_at < now

LoginFailure ==
    [status |-> 401, detail |-> "Incorrect email or password.", token |-> {},
     profile |-> {}]

\* C4: a login with an unregistered email and a login with a registered email
\* and a password that does not verify get the same response, in every store
\* state: the same 401, the same detail, no token; and a login changes no state.
C4_LoginFailuresIndistinguishable ==
    /\ [](\A email \in Emails, password \in Passwords :
            (\/ ByEmail(users, email) = {}
             \/ \E u \in ByEmail(users, email) :
                   u.hashed_password.digest # <<password, u.hashed_password.salt>>)
            => Visible(login_user(email, password, users, now)) = LoginFailure)
    /\ [][(last'.op = "login" /\ last' # last)
           => (users' = users /\ now' = now /\ reqs' = reqs
               /\ (last'.status # 200 => Visible(last') = LoginFailure))]_vars

\* C4 witness: the last request is a refused login for a registered email,
\* while the other email is not registered.
C4_Witness ==
    /\ last.op = "login" /\ last.status = 401
    /\ ByEmail(users, last.email) # {}
    /\ \E email \in Emails : ByEmail(users, email) = {}

\* C5 (as claimed): every token the verification accepts is signed with the
\* current secret and its expiry is after the current time; a token that /me
\* has answered with a profile carries an expiry; a token issued at t is not
\* accepted at or after t + Lifetime.
C5_AcceptedTokenSignedAndUnexpired ==
    /\ \A tok \in Tokens :
          Accepted(tok, now)
          => /\ SignedByCurrentSecret(tok)
             /\ \A x \in tok.exp : x * TicksPerSec > now
    /\ (last.op = "me" /\ last.status = 200)
       => (SignedByCurrentSecret(last.auth) /\ last.auth.exp # {})
    /\ \A sub \in Subjects, t \in 0..now :
          now >= t + Lifetime => ~Accepted(create_access_token(sub, t), now)

\* C5, the part the code keeps: an accepted token is signed with the current
\* secret, an expiry it carries is after the current time, and an issued
\* token is not accepted at or after its issue time plus Lifetime.
C5_SignedAndIssuedExpire ==
    /\ \A tok \in Tokens :
          Accepted(tok, now)
          => /\ SignedByCurrentSecret(tok)
             /\ \A x \in tok.exp : x * TicksPerSec > now
    /\ \A sub \in Subjects, t \in 0..now :
          now >= t + Lifetime => ~Accepted(create_access_token(sub, t), now)

\* C6: /me answers 401 with no profile when the request has no Authorization
\* header, a malformed token, a bad signature, an expired token, a token with
\* no subject, or a valid token whose subject is no persisted user.
C6_MeUnauthenticatedIs401 ==
    \A auth \in Auths :
        (\/ auth.fmt # "jwt"
         \/ ~SignedByCurrentSecret(auth)
         \/ Expired(auth, now)
         \/ auth.sub = NoSub
         \/ ById(users, auth.sub) = {})
        => LET r == MeResponse(auth, users, now) IN
           r.status = 401 /\ r.profile = {} /\ r.token = {}

\* C6 witness: /me has refused a valid token whose subject is not persisted,
\* while another user is.
C6_Witness ==
    /\ last.op = "me" /\ last.status = 401
    /\ ValidToken(last.auth, now)
    /\ ById(users, last.auth.sub) = {}
    /\ users # {}

\* C7: /me returns a profile only for a valid token whose subject is a
\* persisted, active user; the profile is that user's and has no password
\* hash; a valid token of an inactive user gets 400 and no profile.
C7_MeProfileOnlyForActive ==
    \A auth \in Auths :
        LET r == MeResponse(auth, users, now) IN
        /\ r.profile # {}
           => /\ r.status = 200
              /\ ValidToken(auth, now)
              /\ \E u \in users :
                    /\ ToString(u.id) = auth.sub
                    /\ u.is_active
                    /\ \A p \in r.profile :
                          /\ p.id = auth.sub
                          /\ p.email = u.email
                          /\ p.created_at = u.created_at
                          /\ "hashed_password" \notin DOMAIN p
        /\ (ValidToken(auth, now)
            /\ \E u \in users : ToString(u.id) = auth.sub /\ ~u.is_active)
           => r.status = 400 /\ r.profile = {}

\* C7 witness: /me has answered 400 to a token the service issued, for a
\* user who is inactive.
C7_Witness ==
    /\ last.op = "me" /\ last.status = 400 /\ last.profile = {}
    /\ last.auth \in IssuedBy(now)
    /\ \E u \in ById(users, last.auth.sub) : ~u.is_active

MatchingUsers(email, password) ==
    {u \in ByEmail(users, email) :
        u.hashed_password.digest = <<password, u.hashed_password.salt>>}

\* C8 (as claimed): a login with the correct email and password of a user
\* whose active flag is false does not succeed and issues no token.
C8_InactiveLoginRefused ==
    \A email \in Emails, password \in Passwords :
        (\E u \in MatchingUsers(email, password) : ~u.is_active)
        => LET r == login_user(email, password, users, now) IN
           r.status # 200 /\ r.token = {}

\* C8 (amended): the active flag does not gate login. A login with the correct
\* email and password of an inactive user succeeds and issues a token for
\* that user; the flag gates /me, which answers that token with 400.
C8_InactiveLoginSucceeds ==
    \A email \in Emails, password \in Passwords :
        \A u \in MatchingUsers(email, password) :
            ~u.is_active
            => LET r == login_user(email, password, users, now) IN
               /\ r.status = 200
               /\ r.token = {create_access_token(ToString(u.id), now)}
               /\ \A tok \in r.token :
                     LET m == MeResponse(tok, users, now) IN
                     m.status = 400 /\ m.profile = {}

\* C8 witness: a login has succeeded with the credentials of a user whose
\* active flag is false.
C8_Witness ==
    /\ last.op = "login" /\ last.status = 200 /\ last.token # {}
    /\ \E u \in MatchingUsers(last.email, last.password) : ~u.is_active

\* C9 (as claimed): when /me is given a correctly signed, unexpired token
\* with no subject claim, decode_access_token raises and returns no value.
C9_DecodeRaisesWithoutSubject ==
    (/\ last.op = "me"
     /\ SignedByCurrentSecret(last.auth)
     /\ ~Expired(last.auth, now)
     /\ last.auth.sub = NoSub)
    => decode_access_token(last.auth, now).exc # "none"

\* C9, the part the code keeps: /me answers such a token with 401.
C9_MeRefusesWithoutSubject ==
    \A tok \in Tokens :
        (SignedByCurrentSecret(tok) /\ ~Expired(tok, now) /\ tok.sub = NoSub)
        => MeResponse(tok, users, now).status = 401

\* C10: every logout request, with a token or with none, is
\* answered 200 with the acknowledgement and leaves the store, the clock,
\* the requests in flight and the answer of /me to every token unchanged.
C10_LogoutNoEffect ==
    [][(last'.op = "logout" /\ last' # last)
        => /\ last'.status = 200
           /\ last'.detail = "Logout successful."
           /\ users' = users /\ now' = now /\ reqs' = reqs
           /\ \A auth \in Auths :
                 MeResponse(auth, users', now') = MeResponse(auth, users, now)]_vars

\* C10 witness: logout has answered while a user is persisted and some
\* token is one /me answers with a profile.
C10_Witness ==
    /\ last.op = "logout" /\ last.status = 200
    /\ \E auth \in Auths : MeResponse(auth, users, now).status = 200
====
